---- MODULE Spec2Model ----
(***************************************************************************)
(* Model of package caller (github.com/gdey/caller): the ignore-list aware *)
(* stack walker.  Strings are sequences of one-character strings, so that  *)
(* PackageName does the index arithmetic of the source.  One goroutine     *)
(* runs client code; its call stack is the variable stack (innermost frame *)
(* first), and the library's operations are applied to the stack that      *)
(* runtime.Callers would capture from inside them.  The specifications     *)
(* with several goroutines keep them in the variable threads, each with a  *)
(* stack and a position of its own.                                        *)
(***************************************************************************)
EXTENDS Integers, Sequences, FiniteSets

VARIABLES reg, stack, last, threads

vars == <<reg, stack, last, threads>>

---------------------------------------------------------------------------
(* Bounds of the model *)

\* deepest client call stack (frames above runtime.goexit)
MaxStack == 3

\* most entries held by the ignore lists of all instances together
MaxEntries == 2

---------------------------------------------------------------------------
(* Strings *)

Range(s) == {s[k] : k \in 1..Len(s)}

RECURSIVE IndexFrom(_, _, _)
IndexFrom(s, c, k) ==
    IF k > Len(s) THEN -1
    ELSE IF s[k] = c THEN k - 1
    ELSE IndexFrom(s, c, k + 1)

\* strings.Index(s, c): 0-based index of the first c in s, -1 if there is none
Index(s, c) == IndexFrom(s, c, 1)

RECURSIVE LastIndexFrom(_, _, _)
LastIndexFrom(s, c, k) ==
    IF k < 1 THEN -1
    ELSE IF s[k] = c THEN k - 1
    ELSE LastIndexFrom(s, c, k - 1)

\* strings.LastIndex(s, c): 0-based index of the last c in s, -1 if there is none
LastIndex(s, c) == LastIndexFrom(s, c, Len(s))

\* s[from:], from a 0-based index
SliceFrom(s, from) == SubSeq(s, from + 1, Len(s))

\* s[:to], to a 0-based index (exclusive)
SliceTo(s, to) == SubSeq(s, 1, to)

\* PackageName cutting at the first '.' of the whole string
PackageNameFirstDot(fullFuncName) ==
    LET dotIndex == Index(fullFuncName, ".")
    IN  IF dotIndex = -1 THEN <<>> ELSE SliceTo(fullFuncName, dotIndex)

PackageName(fullFuncName) ==
    LET li == LastIndex(fullFuncName, "/")
        slashIndex == IF li = -1 THEN 0 ELSE li
        dotIndex == Index(SliceFrom(fullFuncName, slashIndex), ".")
    IN  IF dotIndex = -1 THEN <<>> ELSE SliceTo(fullFuncName, slashIndex + dotIndex)

---------------------------------------------------------------------------
(* Names the runtime reports.  Import paths are shortened:                 *)
(*   g.c/c  stands for github.com/gdey/caller                              *)
(*   g.c/l  stands for github.com/gdey/caller/simple/log                   *)
(*   g      is a client package whose import path is a single element      *)

PkgRuntime == <<"r", "u", "n", "t", "i", "m", "e">>
PkgCaller == <<"g", ".", "c", "/", "c">>
PkgLog == <<"g", ".", "c", "/", "l">>
PkgTest == <<"g">>

Qualified(pkg, name) == pkg \o <<".">> \o name

fnCallers == Qualified(PkgRuntime, <<"C">>)
fnGoexit == Qualified(PkgRuntime, <<"g">>)
fnMain == Qualified(PkgRuntime, <<"m">>)
fnDoInit == Qualified(PkgRuntime, <<"d">>)
fnGetFrames == Qualified(PkgCaller, <<"g">>)
fnOurPackage == Qualified(PkgCaller, <<"o">>)
fnInit == Qualified(PkgCaller, <<"i">>)

\* the methods of ACaller
mCaller == Qualified(PkgCaller, <<"A", ".", "C">>)
mHelper == Qualified(PkgCaller, <<"A", ".", "H">>)
mIgnoreFunction == Qualified(PkgCaller, <<"A", ".", "F">>)
mIgnorePackage == Qualified(PkgCaller, <<"A", ".", "P">>)

\* the package-level functions
pCaller == Qualified(PkgCaller, <<"C">>)
pHelper == Qualified(PkgCaller, <<"H">>)
pIgnoreFunction == Qualified(PkgCaller, <<"F">>)
pIgnorePackage == Qualified(PkgCaller, <<"P">>)

\* client functions: a type T of package g.c/l with methods I (Info) and l (log),
\* and a function X of package g
nameInfo == <<"T", ".", "I">>
nameLog == <<"T", ".", "l">>
fnInfo == Qualified(PkgLog, nameInfo)
fnLog == Qualified(PkgLog, nameLog)
fnTest == Qualified(PkgTest, <<"X">>)

\* a name that is not a bare function name: it carries a path
nameQual == <<"c", "/", "l", ".", "T", ".", "I">>

\* a name with a path that, after the package g, spells a function of the
\* resolver's own package
nameOwn == <<"c", "/", "c", ".", "C">>

Pool == {fnInfo, fnLog, fnTest}

\* the client code is layered as in the example of the README: X calls Info
\* and log, Info calls log, and each of them may call itself
Layer(f) == IF f = fnTest THEN "test" ELSE IF f = fnInfo THEN "info" ELSE "log"

MayCall(f, g) ==
    \/ f = g
    \/ Layer(f) = "test"
    \/ Layer(f) = "info" /\ Layer(g) = "log"
Names == {nameInfo, nameLog, nameQual}

\* names given to IgnoreFunction by a client that passes paths
PathNames == {nameInfo, nameOwn}

---------------------------------------------------------------------------
(* Frame source *)

\* a runtime.Frame: the function name, and PC, the place of the activation
\* in the captured stack (1 is runtime.Callers itself)
Frame(pcs, k) == [Function |-> pcs[k], PC |-> k]

NoFrame == [Function |-> <<>>, PC |-> 0]

\* getFrames keeping one frame too many: the slice starts at skip - 1
getFramesOffByOne(num, skip, pcs) ==
    LET size == num + skip
        n == IF size < Len(pcs) THEN size ELSE Len(pcs)
    IN  IF size < 0 \/ n = 0 \/ skip >= n - 1
        THEN [panic |-> TRUE, frames |-> <<>>]
        ELSE [panic |-> FALSE,
              frames |-> [k \in 1..(n - skip + 1) |-> [Function |-> pcs[skip + k - 1],
                                                       PC |-> skip + k - 1]]]

\* getFrames(num, skip) run on a stack whose captured addresses would be pcs
getFrames(num, skip, pcs) ==
    LET size == num + skip
        n == IF size < Len(pcs) THEN size ELSE Len(pcs)
    IN  IF size < 0 \/ n = 0 \/ skip >= n - 1
        THEN [panic |-> TRUE, frames |-> <<>>]
        ELSE [panic |-> FALSE, frames |-> [k \in 1..(n - skip) |-> Frame(pcs, skip + k)]]

\* what runtime.Callers(0, ...) sees inside getFrames, called by the library
\* function fn, itself reached through the frames in via from the client stack st
Callers(fn, via, st) == <<fnCallers, fnGetFrames, fn>> \o via \o st \o <<fnGoexit>>

RECURSIVE ourPackageLoop(_)
ourPackageLoop(frames) ==
    LET frame == Head(frames)
        more == Len(frames) > 1
        packageName == PackageName(frame.Function)
    IN  IF packageName = <<>> /\ more THEN ourPackageLoop(Tail(frames)) ELSE packageName

\* ourPackage runs while the package is initialised
ourPackage ==
    LET pcs == <<fnCallers, fnGetFrames, fnOurPackage, fnInit, fnDoInit, fnMain, fnGoexit>>
    IN  ourPackageLoop(getFrames(4, 2, pcs).frames)

ourPackageName == ourPackage

---------------------------------------------------------------------------
(* The resolver: type ACaller *)

DefaultNumberOfFramesToGet == 15

\* the zero value of ACaller
ACaller == [numFramesToGet |-> 0, ignorePackages |-> <<>>, ignoreFunctions |-> <<>>]

RECURSIVE IgnorePackageLoop(_)
IgnorePackageLoop(frames) ==
    LET frame == Head(frames)
        more == Len(frames) > 1
        packageName == PackageName(frame.Function)
    IN  IF packageName # <<>> \/ ~more
        THEN IF packageName = ourPackageName /\ more
             THEN IgnorePackageLoop(Tail(frames))
             ELSE packageName
        ELSE IgnorePackageLoop(Tail(frames))

\* IgnorePackage removing the functions of the package from ignoreFunctions
IgnorePackagePruning(c, pcs) ==
    LET fr == getFrames(5, 3, pcs)
        packageName == IgnorePackageLoop(fr.frames)
        Keep(fn) == PackageName(fn) # packageName
    IN  IF fr.panic THEN [kind |-> "panic", c |-> c]
        ELSE IF packageName = <<>> THEN [kind |-> "panic", c |-> c]
        ELSE IF packageName = ourPackageName \/ packageName = PkgRuntime
             THEN [kind |-> "ok", c |-> c]
        ELSE [kind |-> "ok",
              c |-> [c EXCEPT !.ignorePackages = Append(@, packageName),
                              !.ignoreFunctions = SelectSeq(@, Keep)]]

\* c.IgnorePackage() on captured stack pcs: the instance afterwards, or a panic
IgnorePackage(c, pcs) ==
    LET fr == getFrames(5, 3, pcs)
        packageName == IgnorePackageLoop(fr.frames)
    IN  IF fr.panic THEN [kind |-> "panic", c |-> c]
        ELSE IF packageName = <<>> THEN [kind |-> "panic", c |-> c]
        ELSE IF packageName = ourPackageName \/ packageName = PkgRuntime
             THEN [kind |-> "ok", c |-> c]
        ELSE [kind |-> "ok",
              c |-> [c EXCEPT !.ignorePackages = Append(@, packageName)]]

\* HelperLoop stopping at the first named frame, own package or not
HelperLoopFirstNamed(frames) ==
    LET named == {k \in 1..Len(frames) : frames[k].Function # <<>>}
        first == CHOOSE k \in named : \A j \in named : k <= j
    IN  IF named = {}
        THEN [kind |-> "panic", frame |-> frames[Len(frames)], packageName |-> <<>>]
        ELSE [kind |-> "found", frame |-> frames[first],
              packageName |-> PackageName(frames[first].Function)]

\* HelperLoop returning without a word where the frames end on an unnamed one
RECURSIVE HelperLoopNoPanic(_)
HelperLoopNoPanic(frames) ==
    LET frame == Head(frames)
        more == Len(frames) > 1
        packageName == PackageName(frame.Function)
    IN  IF frame.Function = <<>>
        THEN IF ~more
             THEN [kind |-> "return", frame |-> frame, packageName |-> <<>>]
             ELSE HelperLoopNoPanic(Tail(frames))
        ELSE IF packageName # ourPackageName /\ packageName # PkgRuntime
             THEN [kind |-> "found", frame |-> frame, packageName |-> packageName]
        ELSE IF ~more
             THEN [kind |-> "return", frame |-> frame, packageName |-> packageName]
        ELSE HelperLoopNoPanic(Tail(frames))

RECURSIVE HelperLoop(_)
HelperLoop(frames) ==
    LET frame == Head(frames)
        more == Len(frames) > 1
        packageName == PackageName(frame.Function)
    IN  IF frame.Function = <<>>
        THEN IF ~more
             THEN [kind |-> "panic", frame |-> frame, packageName |-> <<>>]
             ELSE HelperLoop(Tail(frames))
        ELSE IF packageName # ourPackageName /\ packageName # PkgRuntime
             THEN [kind |-> "found", frame |-> frame, packageName |-> packageName]
        ELSE IF ~more
             THEN [kind |-> "return", frame |-> frame, packageName |-> packageName]
        ELSE HelperLoop(Tail(frames))

\* Helper without the search of ignoreFunctions for the name
HelperNoDedup(c, pcs) ==
    LET fr == getFrames(5, 3, pcs)
        w == HelperLoop(fr.frames)
    IN  IF fr.panic THEN [kind |-> "panic", c |-> c]
        ELSE IF w.kind = "panic" THEN [kind |-> "panic", c |-> c]
        ELSE IF w.kind = "return" THEN [kind |-> "ok", c |-> c]
        ELSE IF w.packageName = ourPackageName \/ w.packageName = PkgRuntime
             THEN [kind |-> "ok", c |-> c]
        ELSE IF w.packageName \in Range(c.ignorePackages) THEN [kind |-> "ok", c |-> c]
        ELSE [kind |-> "ok",
              c |-> [c EXCEPT !.ignoreFunctions = Append(@, w.frame.Function)]]

\* Helper skipping one frame too many
HelperSkip4(c, pcs) ==
    LET fr == getFrames(5, 4, pcs)
        w == HelperLoop(fr.frames)
    IN  IF fr.panic THEN [kind |-> "panic", c |-> c]
        ELSE IF w.kind = "panic" THEN [kind |-> "panic", c |-> c]
        ELSE IF w.kind = "return" THEN [kind |-> "ok", c |-> c]
        ELSE IF w.frame.Function \in Range(c.ignoreFunctions) THEN [kind |-> "ok", c |-> c]
        ELSE IF w.packageName = ourPackageName \/ w.packageName = PkgRuntime
             THEN [kind |-> "ok", c |-> c]
        ELSE IF w.packageName \in Range(c.ignorePackages) THEN [kind |-> "ok", c |-> c]
        ELSE [kind |-> "ok",
              c |-> [c EXCEPT !.ignoreFunctions = Append(@, w.frame.Function)]]

\* c.Helper() on captured stack pcs
Helper(c, pcs) ==
    LET fr == getFrames(5, 3, pcs)
        w == HelperLoop(fr.frames)
    IN  IF fr.panic THEN [kind |-> "panic", c |-> c]
        ELSE IF w.kind = "panic" THEN [kind |-> "panic", c |-> c]
        ELSE IF w.kind = "return" THEN [kind |-> "ok", c |-> c]
        ELSE IF w.frame.Function \in Range(c.ignoreFunctions) THEN [kind |-> "ok", c |-> c]
        ELSE IF w.packageName = ourPackageName \/ w.packageName = PkgRuntime
             THEN [kind |-> "ok", c |-> c]
        ELSE IF w.packageName \in Range(c.ignorePackages) THEN [kind |-> "ok", c |-> c]
        ELSE [kind |-> "ok",
              c |-> [c EXCEPT !.ignoreFunctions = Append(@, w.frame.Function)]]

RECURSIVE IgnoreFunctionLoop(_)
IgnoreFunctionLoop(frames) ==
    LET frame == Head(frames)
        more == Len(frames) > 1
        packageName == PackageName(frame.Function)
    IN  IF frame.Function = <<>>
        THEN IF ~more
             THEN [kind |-> "panic", packageName |-> <<>>]
             ELSE IgnoreFunctionLoop(Tail(frames))
        ELSE IF packageName # ourPackageName /\ packageName # PkgRuntime
             THEN [kind |-> "found", packageName |-> packageName]
        ELSE IF ~more
             THEN [kind |-> "return", packageName |-> packageName]
        ELSE IgnoreFunctionLoop(Tail(frames))

\* IgnoreFunction recording the bare name, without the package
IgnoreFunctionBareName(c, name, pcs) ==
    LET fr == getFrames(5, 3, pcs)
        w == IgnoreFunctionLoop(fr.frames)
    IN  IF fr.panic THEN [kind |-> "panic", c |-> c]
        ELSE IF w.kind = "panic" THEN [kind |-> "panic", c |-> c]
        ELSE IF w.kind = "return" THEN [kind |-> "ok", c |-> c]
        ELSE IF name \in Range(c.ignoreFunctions) THEN [kind |-> "ok", c |-> c]
        ELSE IF w.packageName = ourPackageName \/ w.packageName = PkgRuntime
             THEN [kind |-> "ok", c |-> c]
        ELSE IF w.packageName \in Range(c.ignorePackages) THEN [kind |-> "ok", c |-> c]
        ELSE [kind |-> "ok", c |-> [c EXCEPT !.ignoreFunctions = Append(@, name)]]

\* c.IgnoreFunction(name) on captured stack pcs
IgnoreFunction(c, name, pcs) ==
    LET fr == getFrames(5, 3, pcs)
        w == IgnoreFunctionLoop(fr.frames)
        fullFunctionName == w.packageName \o <<".">> \o name
    IN  IF fr.panic THEN [kind |-> "panic", c |-> c]
        ELSE IF w.kind = "panic" THEN [kind |-> "panic", c |-> c]
        ELSE IF w.kind = "return" THEN [kind |-> "ok", c |-> c]
        ELSE IF fullFunctionName \in Range(c.ignoreFunctions) THEN [kind |-> "ok", c |-> c]
        ELSE IF w.packageName = ourPackageName \/ w.packageName = PkgRuntime
             THEN [kind |-> "ok", c |-> c]
        ELSE IF w.packageName \in Range(c.ignorePackages) THEN [kind |-> "ok", c |-> c]
        ELSE [kind |-> "ok",
              c |-> [c EXCEPT !.ignoreFunctions = Append(@, fullFunctionName)]]

\* skipFrame without the scan of ignoreFunctions
skipFrameNoFunctions(c, frame) ==
    LET packageName == PackageName(frame.Function)
    IN  IF packageName = PkgRuntime \/ packageName = ourPackageName THEN TRUE
        ELSE \E k \in 1..Len(c.ignorePackages) : packageName = c.ignorePackages[k]

skipFrame(c, frame) ==
    LET functionName == frame.Function
        packageName == PackageName(functionName)
    IN  IF packageName = PkgRuntime \/ packageName = ourPackageName THEN TRUE
        ELSE IF \E k \in 1..Len(c.ignorePackages) : packageName = c.ignorePackages[k] THEN TRUE
        ELSE IF \E k \in 1..Len(c.ignoreFunctions) : functionName = c.ignoreFunctions[k] THEN TRUE
        ELSE FALSE

\* A uint is held as its most significant bit, top, and the value of its other
\* bits, low.  int and uint are 32 bits wide here, as on the 32-bit targets;
\* on the 64-bit targets the same happens at bit 63.
Uint(top, low) == [top |-> top, low |-> low]

\* size > k, for a constant k that is less than 2^31
UintGreater(size, k) == size.top = 1 \/ size.low > k

\* int(size): the same 32 bits read as a signed integer
IntOfUint(size) ==
    IF size.top = 1 THEN (size.low - 1073741824) - 1073741824 ELSE size.low

\* c.SetNumberOfFramesToGet(size)
SetNumberOfFramesToGet(c, size) ==
    IF UintGreater(size, DefaultNumberOfFramesToGet)
    THEN [c EXCEPT !.numFramesToGet = IntOfUint(size)]
    ELSE c

NumberOfFramesToGet(c) ==
    IF c.numFramesToGet # 0 THEN c.numFramesToGet ELSE DefaultNumberOfFramesToGet

RECURSIVE CallerLoop(_, _)
CallerLoop(c, frames) ==
    LET frame == Head(frames)
        more == Len(frames) > 1
    IN  IF ~skipFrame(c, frame) \/ ~more THEN frame ELSE CallerLoop(c, Tail(frames))

\* the step stopping at the frame it is given, ignored or not
CallerStepFirstFrame(c, frames) ==
    [done |-> TRUE, frame |-> Head(frames), frames |-> Tail(frames)]

\* one turn of the loop of Caller: the next frame, whether the loop ends with
\* it, and the frames left
CallerStep(c, frames) ==
    LET frame == Head(frames)
        more == Len(frames) > 1
    IN  [done |-> ~skipFrame(c, frame) \/ ~more, frame |-> frame, frames |-> Tail(frames)]

\* Caller skipping one frame too few
CallerSkip3(c, pcs) ==
    LET fr == getFrames(NumberOfFramesToGet(c), 3, pcs)
    IN  IF fr.panic THEN [kind |-> "panic", frame |-> NoFrame]
        ELSE [kind |-> "frame", frame |-> CallerLoop(c, fr.frames)]

\* c.Caller() on captured stack pcs: the frame returned, or a panic
Caller(c, pcs) ==
    LET fr == getFrames(NumberOfFramesToGet(c), 4, pcs)
    IN  IF fr.panic THEN [kind |-> "panic", frame |-> NoFrame]
        ELSE [kind |-> "frame", frame |-> CallerLoop(c, fr.frames)]

---------------------------------------------------------------------------
(* The process: the default instance of the package, one instance c that   *)
(* client code declares, and one goroutine running client code             *)

Instances == {"defaultCaller", "c"}

\* defaultCaller is unexported: client code reaches it through the
\* package-level functions, which add their own frame; c is used directly
Via(i, pfn) == IF i = "defaultCaller" THEN <<pfn>> ELSE <<>>

\* sizes asked for: 0, the default, one more, and two values with the top bit set
Sizes == {Uint(0, 0), Uint(0, 15), Uint(0, 16), Uint(1, 0), Uint(1, 16)}

Entries(r) ==
    LET n(i) == Len(r[i].ignorePackages) + Len(r[i].ignoreFunctions)
    IN  n("defaultCaller") + n("c")

Did(op, i, name, kind, frame, n) ==
    [op |-> op, inst |-> i, name |-> name, kind |-> kind, frame |-> frame, n |-> n]

Idle == Did("none", "none", <<>>, "none", NoFrame, 0)

\* no goroutine besides the one of stack
NoThreads == <<>>

Init ==
    /\ reg = [i \in Instances |-> ACaller]
    /\ stack = <<>>
    /\ last = Idle
    /\ threads = NoThreads

\* the goroutine starts in client function f, or its innermost function calls f
Call(f) ==
    /\ Len(stack) < MaxStack
    /\ IF stack = <<>> THEN TRUE ELSE MayCall(Head(stack), f)
    /\ stack' = <<f>> \o stack
    /\ last' = Idle
    /\ UNCHANGED <<reg, threads>>

\* the innermost client function returns
Return ==
    /\ stack # <<>>
    /\ stack' = Tail(stack)
    /\ last' = Idle
    /\ UNCHANGED <<reg, threads>>

\* the innermost client function calls c.Caller(), or caller.Caller()
DoCaller(i) ==
    /\ stack # <<>>
    /\ LET r == Caller(reg[i], Callers(mCaller, Via(i, pCaller), stack))
       IN  last' = Did("Caller", i, <<>>, r.kind, r.frame, 0)
    /\ UNCHANGED <<reg, stack, threads>>

DoHelper(i) ==
    /\ stack # <<>>
    /\ LET r == Helper(reg[i], Callers(mHelper, Via(i, pHelper), stack))
       IN  /\ reg' = [reg EXCEPT ![i] = r.c]
           /\ last' = Did("Helper", i, <<>>, r.kind, NoFrame, 0)
    /\ Entries(reg') <= MaxEntries
    /\ UNCHANGED <<stack, threads>>

DoIgnoreFunction(i, name) ==
    /\ stack # <<>>
    /\ LET r == IgnoreFunction(reg[i], name,
                               Callers(mIgnoreFunction, Via(i, pIgnoreFunction), stack))
       IN  /\ reg' = [reg EXCEPT ![i] = r.c]
           /\ last' = Did("IgnoreFunction", i, name, r.kind, NoFrame, 0)
    /\ Entries(reg') <= MaxEntries
    /\ UNCHANGED <<stack, threads>>

DoIgnorePackage(i) ==
    /\ stack # <<>>
    /\ LET r == IgnorePackage(reg[i], Callers(mIgnorePackage, Via(i, pIgnorePackage), stack))
       IN  /\ reg' = [reg EXCEPT ![i] = r.c]
           /\ last' = Did("IgnorePackage", i, <<>>, r.kind, NoFrame, 0)
    /\ Entries(reg') <= MaxEntries
    /\ UNCHANGED <<stack, threads>>

DoSetNumberOfFramesToGet(i, size) ==
    /\ stack # <<>>
    /\ reg' = [reg EXCEPT ![i] = SetNumberOfFramesToGet(reg[i], size)]
    /\ last' = Did("SetNumberOfFramesToGet", i, <<>>, "ok", NoFrame, size)
    /\ UNCHANGED <<stack, threads>>

DoNumberOfFramesToGet(i) ==
    /\ stack # <<>>
    /\ last' = Did("NumberOfFramesToGet", i, <<>>, "ok", NoFrame, NumberOfFramesToGet(reg[i]))
    /\ UNCHANGED <<reg, stack, threads>>

Next ==
    \/ \E f \in Pool : Call(f)
    \/ Return
    \/ \E i \in Instances : DoCaller(i)
    \/ \E i \in Instances : DoHelper(i)
    \/ \E i \in Instances, name \in Names : DoIgnoreFunction(i, name)
    \/ \E i \in Instances : DoIgnorePackage(i)

\* the ignore registry and the walks, at the default frame depth
Spec == Init /\ [][Next]_vars

NextDepth ==
    \/ \E f \in Pool : Call(f)
    \/ Return
    \/ \E i \in Instances : DoCaller(i)
    \/ \E i \in Instances, size \in Sizes : DoSetNumberOfFramesToGet(i, size)
    \/ \E i \in Instances : DoNumberOfFramesToGet(i)

\* the frame depth setting
SpecDepth == Init /\ [][NextDepth]_vars

NextNames ==
    \/ \E f \in Pool : Call(f)
    \/ Return
    \/ \E i \in Instances : DoHelper(i)
    \/ \E i \in Instances, name \in PathNames : DoIgnoreFunction(i, name)
    \/ \E i \in Instances : DoIgnorePackage(i)

\* the registry under the three registering operations, with names that carry
\* a path
SpecNames == Init /\ [][NextNames]_vars

---------------------------------------------------------------------------
(* The walks of Helper and IgnoreFunction on stacks that hold frames the    *)
(* runtime cannot name, and on the stack of a goroutine whose function is   *)
(* the library function itself (go c.Helper())                              *)

\* deepest stack with unnamed frames
MaxWalk == 5

\* the function name of a frame the runtime cannot name
fnNone == <<>>

\* the innermost function is entered from code the runtime cannot name
CallUnnamed ==
    /\ Len(stack) < MaxWalk
    /\ stack' = <<fnNone>> \o stack
    /\ last' = Idle
    /\ UNCHANGED <<reg, threads>>

\* go c.Helper(), or go caller.Helper()
StartHelper(i) ==
    /\ stack = <<>>
    /\ LET r == Helper(reg[i], Callers(mHelper, Via(i, pHelper), stack))
       IN  /\ reg' = [reg EXCEPT ![i] = r.c]
           /\ last' = Did("Helper", i, <<>>, r.kind, NoFrame, 0)
    /\ UNCHANGED <<stack, threads>>

\* go c.IgnoreFunction(name), or go caller.IgnoreFunction(name)
StartIgnoreFunction(i, name) ==
    /\ stack = <<>>
    /\ LET r == IgnoreFunction(reg[i], name,
                               Callers(mIgnoreFunction, Via(i, pIgnoreFunction), stack))
       IN  /\ reg' = [reg EXCEPT ![i] = r.c]
           /\ last' = Did("IgnoreFunction", i, name, r.kind, NoFrame, 0)
    /\ UNCHANGED <<stack, threads>>

NextWalk ==
    \/ \E f \in Pool : Call(f)
    \/ CallUnnamed
    \/ Return
    \/ \E i \in Instances : DoHelper(i)
    \/ \E i \in Instances : DoIgnoreFunction(i, nameInfo)
    \/ \E i \in Instances : StartHelper(i)
    \/ \E i \in Instances : StartIgnoreFunction(i, nameInfo)

SpecWalk == Init /\ [][NextWalk]_vars

---------------------------------------------------------------------------
(* PackageName as a function of its argument: the goroutine runs one        *)
(* function, whose name is the argument, and PackageName is applied to it   *)

\* longest name tried, apart from the examples
MaxLen == 4

Alphabet == {"/", ".", "a"}

exGroup == <<"g", "r", "o", "u", "p", "/", "s", "u", "b", ".", "T", "y", "p", "e", ".", "M", "e", "t", "h", "o", "d">>
exRuntime == <<"r", "u", "n", "t", "i", "m", "e", ".", "C", "a", "l", "l", "e", "r">>
exCaller == <<"C", "a", "l", "l", "e", "r">>
exGdey == <<"g", "d", "e", "y", "/", "c", "a", "l", "l", "e", "r", ".", "F", "o", "o">>

Examples == {exGroup, exRuntime, exCaller, exGdey}

FullFuncNames == Examples \cup UNION {[1..k -> Alphabet] : k \in 0..MaxLen}

InitParse ==
    /\ reg = [i \in Instances |-> ACaller]
    /\ stack \in {<<fullFuncName>> : fullFuncName \in FullFuncNames}
    /\ last = Idle
    /\ threads = NoThreads

DoPackageName ==
    /\ last = Idle
    /\ last' = Did("PackageName", "none", PackageName(stack[1]), "ok", NoFrame, 0)
    /\ UNCHANGED <<reg, stack, threads>>

NextParse == DoPackageName

SpecParse == InitParse /\ [][NextParse]_vars

---------------------------------------------------------------------------
(* Several goroutines sharing the instances.  Each has a call stack of its  *)
(* own, which does not change, and calls the library from its innermost     *)
(* function; a library call takes several steps, and the steps of the       *)
(* goroutines interleave.                                                   *)

Threads == {"t1", "t2"}

ThreadStacks == {<<fnLog, fnInfo, fnTest>>, <<fnInfo, fnTest>>, <<fnTest>>}

\* a goroutine outside the library, running the functions of st
ThreadIdle(st) ==
    [at |-> "idle", op |-> "none", inst |-> "none", name |-> <<>>, stack |-> st,
     c |-> ACaller, frames |-> <<>>, fn |-> <<>>, pkg |-> <<>>, old |-> <<>>,
     kind |-> "none", frame |-> NoFrame, appended |-> FALSE, overlapped |-> FALSE]

Active(t) == threads[t].at \notin {"idle", "done"}

\* registries that Helper and IgnorePackage calls from the functions of
\* package g.c/l leave behind
Configured ==
    {ACaller,
     [ACaller EXCEPT !.ignoreFunctions = <<fnLog>>],
     [ACaller EXCEPT !.ignoreFunctions = <<fnLog, fnInfo>>],
     [ACaller EXCEPT !.ignorePackages = <<PkgLog>>],
     [ACaller EXCEPT !.ignoreFunctions = <<fnLog>>, !.ignorePackages = <<PkgLog>>]}

InitReaders ==
    /\ reg \in [Instances -> Configured]
    /\ stack = <<>>
    /\ last = Idle
    /\ threads \in [Threads -> {ThreadIdle(st) : st \in ThreadStacks}]

\* goroutine t calls c.Caller(), or caller.Caller(): the receiver is copied,
\* and getFrames captures the stack of t
GoCaller(t, i) ==
    /\ threads[t].at = "idle"
    /\ LET c == reg[i]
           pcs == Callers(mCaller, Via(i, pCaller), threads[t].stack)
           fr == getFrames(NumberOfFramesToGet(c), 4, pcs)
       IN  threads' = [threads EXCEPT ![t] =
               IF fr.panic
               THEN [@ EXCEPT !.at = "done", !.op = "Caller", !.inst = i, !.kind = "panic"]
               ELSE [@ EXCEPT !.at = "walk", !.op = "Caller", !.inst = i,
                              !.c = c, !.frames = fr.frames]]
    /\ UNCHANGED <<reg, stack, last>>

\* goroutine t makes one turn of the loop of Caller
CallerNext(t) ==
    /\ threads[t].at = "walk"
    /\ LET s == CallerStep(threads[t].c, threads[t].frames)
       IN  threads' = [threads EXCEPT ![t] =
               IF s.done
               THEN [@ EXCEPT !.at = "done", !.kind = "frame", !.frame = s.frame,
                              !.frames = <<>>]
               ELSE [@ EXCEPT !.frames = s.frames]]
    /\ UNCHANGED <<reg, stack, last>>

\* the library call of goroutine t is over, and t goes on
ThreadReturn(t) ==
    /\ threads[t].at = "done"
    /\ threads' = [threads EXCEPT ![t] = ThreadIdle(@.stack)]
    /\ UNCHANGED <<reg, stack, last>>

NextReaders ==
    \/ \E t \in Threads, i \in Instances : GoCaller(t, i)
    \/ \E t \in Threads : CallerNext(t)
    \/ \E t \in Threads : ThreadReturn(t)

\* goroutines that only call Caller, on registries set up before
SpecReaders == InitReaders /\ [][NextReaders]_vars

---------------------------------------------------------------------------
(* Goroutines calling the mutating methods.  Nothing orders the reads and   *)
(* the writes of the lists of a shared instance: the search of a list, the  *)
(* read of the slice that append starts from and the write of the slice it  *)
(* returns are steps of their own.  A slice is read and written as a unit.  *)

InitWriters ==
    /\ reg = [i \in Instances |-> ACaller]
    /\ stack = <<>>
    /\ last = Idle
    /\ threads \in [Threads -> {ThreadIdle(st) : st \in ThreadStacks}]

\* the search of ignoreFunctions never finding the name
HelperScanNever(c, fn) == "check"

\* the search of ignoreFunctions for the name: the method returns, or goes on
\* to the checks of the package
HelperScan(c, fn) ==
    IF \E k \in 1..Len(c.ignoreFunctions) : fn = c.ignoreFunctions[k]
    THEN "done" ELSE "check"

\* the checks of the package: the method returns, or goes on to append
HelperCheck(c, packageName) ==
    IF packageName = ourPackageName \/ packageName = PkgRuntime THEN "done"
    ELSE IF \E k \in 1..Len(c.ignorePackages) : packageName = c.ignorePackages[k]
         THEN "done" ELSE "append"

\* goroutine t is in the library, about to do the step named at
Entered(t, op, i, name, at, fn, pkg) ==
    [threads[t] EXCEPT !.at = at, !.op = op, !.inst = i, !.name = name,
                       !.fn = fn, !.pkg = pkg, !.kind = "none",
                       !.overlapped = \E u \in Threads \ {t} : Active(u)]

\* the call of goroutine t is over
Left(t, op, i, name, kind) ==
    [threads[t] EXCEPT !.at = "done", !.op = op, !.inst = i, !.name = name,
                       !.kind = kind,
                       !.overlapped = \E u \in Threads \ {t} : Active(u)]

\* goroutine t calls Helper: the walk that finds the calling function
BeginHelper(t, i) ==
    /\ threads[t].at = "idle"
    /\ LET fr == getFrames(5, 3, Callers(mHelper, Via(i, pHelper), threads[t].stack))
           w == HelperLoop(fr.frames)
       IN  threads' = [threads EXCEPT ![t] =
               IF fr.panic THEN Left(t, "Helper", i, <<>>, "panic")
               ELSE IF w.kind = "panic" THEN Left(t, "Helper", i, <<>>, "panic")
               ELSE IF w.kind = "return" THEN Left(t, "Helper", i, <<>>, "ok")
               ELSE Entered(t, "Helper", i, <<>>, "scan", w.frame.Function, w.packageName)]
    /\ UNCHANGED <<reg, stack, last>>

\* goroutine t calls IgnoreFunction(name): the walk that finds the package
BeginIgnoreFunction(t, i, name) ==
    /\ threads[t].at = "idle"
    /\ LET fr == getFrames(5, 3, Callers(mIgnoreFunction, Via(i, pIgnoreFunction),
                                         threads[t].stack))
           w == IgnoreFunctionLoop(fr.frames)
       IN  threads' = [threads EXCEPT ![t] =
               IF fr.panic THEN Left(t, "IgnoreFunction", i, name, "panic")
               ELSE IF w.kind = "panic" THEN Left(t, "IgnoreFunction", i, name, "panic")
               ELSE IF w.kind = "return" THEN Left(t, "IgnoreFunction", i, name, "ok")
               ELSE Entered(t, "IgnoreFunction", i, name, "scan",
                            w.packageName \o <<".">> \o name, w.packageName)]
    /\ UNCHANGED <<reg, stack, last>>

\* goroutine t calls IgnorePackage: the walk, up to the append
BeginIgnorePackage(t, i) ==
    /\ threads[t].at = "idle"
    /\ LET fr == getFrames(5, 3, Callers(mIgnorePackage, Via(i, pIgnorePackage),
                                         threads[t].stack))
           packageName == IgnorePackageLoop(fr.frames)
       IN  threads' = [threads EXCEPT ![t] =
               IF fr.panic THEN Left(t, "IgnorePackage", i, <<>>, "panic")
               ELSE IF packageName = <<>> THEN Left(t, "IgnorePackage", i, <<>>, "panic")
               ELSE IF packageName = ourPackageName \/ packageName = PkgRuntime
                    THEN Left(t, "IgnorePackage", i, <<>>, "ok")
               ELSE Entered(t, "IgnorePackage", i, <<>>, "append", <<>>, packageName)]
    /\ UNCHANGED <<reg, stack, last>>

\* Helper and IgnoreFunction: the search of ignoreFunctions
ScanFunctions(t) ==
    /\ threads[t].at = "scan"
    /\ LET to == HelperScan(reg[threads[t].inst], threads[t].fn)
       IN  threads' = [threads EXCEPT ![t] =
               IF to = "done" THEN [@ EXCEPT !.at = "done", !.kind = "ok"]
               ELSE [@ EXCEPT !.at = to]]
    /\ UNCHANGED <<reg, stack, last>>

\* Helper and IgnoreFunction: the checks of the package
CheckPackage(t) ==
    /\ threads[t].at = "check"
    /\ LET to == HelperCheck(reg[threads[t].inst], threads[t].pkg)
       IN  threads' = [threads EXCEPT ![t] =
               IF to = "done" THEN [@ EXCEPT !.at = "done", !.kind = "ok"]
               ELSE [@ EXCEPT !.at = to]]
    /\ UNCHANGED <<reg, stack, last>>

\* append reads the slice it appends to
AppendRead(t) ==
    /\ threads[t].at = "append"
    /\ LET c == reg[threads[t].inst]
       IN  threads' = [threads EXCEPT ![t] =
               [@ EXCEPT !.at = "write",
                         !.old = IF threads[t].op = "IgnorePackage"
                                 THEN c.ignorePackages ELSE c.ignoreFunctions]]
    /\ UNCHANGED <<reg, stack, last>>

\* the slice append returns is stored in the field of the instance
AppendWrite(t) ==
    /\ threads[t].at = "write"
    /\ LET th == threads[t]
       IN  reg' = [reg EXCEPT ![th.inst] =
               IF th.op = "IgnorePackage"
               THEN [@ EXCEPT !.ignorePackages = Append(th.old, th.pkg)]
               ELSE [@ EXCEPT !.ignoreFunctions = Append(th.old, th.fn)]]
    /\ threads' = [threads EXCEPT ![t] =
           [@ EXCEPT !.at = "done", !.kind = "ok", !.appended = TRUE]]
    /\ UNCHANGED <<stack, last>>

NextWriters ==
    \/ \E t \in Threads, i \in Instances : BeginHelper(t, i)
    \/ \E t \in Threads, i \in Instances, name \in Names : BeginIgnoreFunction(t, i, name)
    \/ \E t \in Threads, i \in Instances : BeginIgnorePackage(t, i)
    \/ \E t \in Threads : ScanFunctions(t)
    \/ \E t \in Threads : CheckPackage(t)
    \/ \E t \in Threads : AppendRead(t)
    \/ \E t \in Threads : AppendWrite(t)

\* two goroutines, each calling one mutating method
SpecWriters == InitWriters /\ [][NextWriters]_vars

---------------------------------------------------------------------------
(* Vocabulary of the properties *)

\* the frame is one the resolver is configured to ignore
Ignored(c, fn) ==
    \/ PackageName(fn) = PkgRuntime
    \/ PackageName(fn) = PkgCaller
    \/ PackageName(fn) \in Range(c.ignorePackages)
    \/ fn \in Range(c.ignoreFunctions)

NoConfiguration(c) == c.ignorePackages = <<>> /\ c.ignoreFunctions = <<>>

\* outside the resolver's own package and runtime
Outside(fn) == PackageName(fn) # PkgCaller /\ PackageName(fn) # PkgRuntime

\* the stack captured by the Caller call that last is about
CapturedByCaller == Callers(mCaller, Via(last.inst, pCaller), stack)

\* the last captured address the walk of Caller can reach
LastReachable(c, pcs) ==
    IF Len(pcs) < NumberOfFramesToGet(c) + 4 THEN Len(pcs) ELSE NumberOfFramesToGet(c) + 4

NoDuplicates(s) == \A j, k \in 1..Len(s) : s[j] = s[k] => j = k

Registering == {"Helper", "IgnoreFunction"}

---------------------------------------------------------------------------
(* C1 *)

\* C1: the frame Caller returns is the first frame, walking outward after the
\* 4 skipped innermost frames, that is not ignored: every frame before it is
\* of runtime or the own package, of a package in ignorePackages, or a function
\* in ignoreFunctions, and the returned frame is none of these unless it is the
\* last frame the walk can reach.
C1_FirstNotIgnored ==
    (last.op = "Caller" /\ last.kind = "frame") =>
        LET c == reg[last.inst]
            pcs == CapturedByCaller
            k == last.frame.PC
        IN  /\ k \in 5..LastReachable(c, pcs)
            /\ last.frame.Function = pcs[k]
            /\ \A j \in 5..(k - 1) : Ignored(c, pcs[j])
            /\ ~Ignored(c, pcs[k]) \/ k = LastReachable(c, pcs)

\* Caller passed a frame listed in ignoreFunctions and returned a later frame
\* that is not ignored and is not the last one
C1_Witness ==
    /\ last.op = "Caller" /\ last.kind = "frame"
    /\ last.frame.PC > 5
    /\ last.frame.PC < Len(CapturedByCaller)
    /\ CapturedByCaller[5] \in Range(reg[last.inst].ignoreFunctions)
    /\ ~Ignored(reg[last.inst], last.frame.Function)

---------------------------------------------------------------------------
(* C2 *)

\* C2: Caller always returns a frame and never fails fatally, however shallow
\* the call stack.
C2_CallerNeverFails == last.op = "Caller" => last.kind = "frame"

---------------------------------------------------------------------------
(* C3 *)

\* C3 as stated: the Caller method of a resolver with empty ignore lists,
\* called directly by F (outside the own package and runtime), returns the
\* frame of F, its immediate caller.
C3_ReturnsImmediateCaller ==
    (/\ last.op = "Caller" /\ last.inst = "c" /\ last.kind = "frame"
     /\ NoConfiguration(reg["c"])
     /\ Outside(stack[1]))
        => last.frame.Function = stack[1]

\* C3 amended: the Caller method of a resolver with empty ignore lists, called
\* directly by F, itself called by G (outside the own package and runtime),
\* returns a frame, and its function name is that of G.
C3_ReturnsCallerOfCaller ==
    (/\ last.op = "Caller" /\ last.inst = "c"
     /\ NoConfiguration(reg["c"])
     /\ Len(stack) >= 2 /\ Outside(stack[2]))
        => last.kind = "frame" /\ last.frame.Function = stack[2]

\* Caller was called by F, called by another function G, and returned G
C3_Witness ==
    /\ last.op = "Caller" /\ last.inst = "c" /\ last.kind = "frame"
    /\ NoConfiguration(reg["c"])
    /\ Len(stack) >= 2 /\ stack[1] # stack[2] /\ Outside(stack[1])
    /\ last.frame.Function = stack[2]

---------------------------------------------------------------------------
(* C4 *)

\* C4: the walk of the Caller method, called inside F, starts at the frame of
\* F's caller G: the frame of F (captured address 4) is never returned, and
\* with no ignore configuration and G outside the own package and runtime the
\* frame of G (captured address 5) is returned.
C4_WalkStartsAtCallersCaller ==
    (last.op = "Caller" /\ last.inst = "c" /\ last.kind = "frame") =>
        /\ last.frame.PC # 4
        /\ (NoConfiguration(reg["c"]) /\ Len(stack) >= 2 /\ Outside(stack[2]))
               => last.frame.PC = 5

\* F is not ignored, and still the frame returned is the one of its caller
C4_Witness ==
    /\ last.op = "Caller" /\ last.inst = "c" /\ last.kind = "frame"
    /\ NoConfiguration(reg["c"])
    /\ ~Ignored(reg["c"], stack[1])
    /\ last.frame.PC = 5 /\ last.frame.Function # stack[1]

---------------------------------------------------------------------------
(* C5 *)

\* C5: once package P is in ignorePackages, no Helper or IgnoreFunction(name)
\* call, for any name, newly adds to ignoreFunctions a function that belongs
\* to P.
C5_PackageSubsumption ==
    [][ (last'.op \in Registering) =>
            \A fn \in Range(reg'[last'.inst].ignoreFunctions)
                          \ Range(reg[last'.inst].ignoreFunctions) :
                PackageName(fn) \notin Range(reg[last'.inst].ignorePackages) ]_vars

---------------------------------------------------------------------------
(* C6 *)

\* the step is a second call of the Helper or IgnoreFunction call last is about
Repeated ==
    /\ last.op \in Registering /\ last.kind = "ok"
    /\ last'.op = last.op /\ last'.inst = last.inst /\ last'.name = last.name
    /\ stack' = stack

\* C6: ignoreFunctions holds each function name at most once, and calling
\* Helper, or IgnoreFunction with the same name, a second time from the same
\* function leaves the registry exactly as after the first call.
C6_IdempotentRegistration ==
    /\ [](\A i \in Instances : NoDuplicates(reg[i].ignoreFunctions))
    /\ [][Repeated => (reg' = reg /\ last'.kind = "ok")]_vars

\* IgnoreFunction(name) has run for a name that was registered before: the
\* name is in the list and is not the entry appended last
C6_Witness ==
    /\ last.op = "IgnoreFunction" /\ last.kind = "ok"
    /\ LET fns == reg[last.inst].ignoreFunctions
           full == Qualified(PackageName(stack[1]), last.name)
       IN  /\ Len(fns) = 2
           /\ fns[1] = full

---------------------------------------------------------------------------
(* C7 *)

\* C7: no package name occurs in ignorePackages more than once.
C7_PackagesAreASet == \A i \in Instances : NoDuplicates(reg[i].ignorePackages)

---------------------------------------------------------------------------
(* C8 *)

\* what the method would answer on instance c0 for the same calling function
\* and the same stack above it, without the frame of the package-level function
AsMethod(op, c0, name) ==
    CASE op = "Helper" -> Helper(c0, Callers(mHelper, <<>>, stack))
      [] op = "IgnoreFunction" -> IgnoreFunction(c0, name, Callers(mIgnoreFunction, <<>>, stack))
      [] op = "IgnorePackage" -> IgnorePackage(c0, Callers(mIgnorePackage, <<>>, stack))

\* C8 as stated, for Caller: for the same calling function, the same stack
\* above it and the same registry, package-level Caller() returns the frame the
\* Caller method returns.
C8_PackageLevelCallerAsMethod ==
    LET m == Caller(reg["defaultCaller"], Callers(mCaller, <<>>, stack))
    IN  (/\ last.op = "Caller" /\ last.inst = "defaultCaller"
         /\ last.kind = "frame" /\ m.kind = "frame")
            => last.frame.Function = m.frame.Function

\* package-level Caller() starts its walk at its own caller F: it returns a
\* frame, never the frame of the package-level function itself, and the frame
\* of F when F is not ignored
PackageLevelCallerStartsAtCaller ==
    (last.op = "Caller" /\ last.inst = "defaultCaller") =>
        /\ last.kind = "frame"
        /\ last.frame.PC >= 5
        /\ ~Ignored(reg["defaultCaller"], stack[1])
               => (last.frame.PC = 5 /\ last.frame.Function = stack[1])

\* package-level Helper, IgnoreFunction and IgnorePackage, called from a
\* function with a package of its own, change defaultCaller as the method would
PackageLevelRegistersAsMethod ==
    (/\ last'.inst = "defaultCaller"
     /\ last'.op \in {"Helper", "IgnoreFunction", "IgnorePackage"}
     /\ PackageName(stack[1]) # <<>> /\ Outside(stack[1]))
        => LET m == AsMethod(last'.op, reg["defaultCaller"], last'.name)
           IN  reg'["defaultCaller"] = m.c /\ last'.kind = m.kind

\* C8 amended: package-level Helper, IgnoreFunction and IgnorePackage, called
\* from a function F whose package is neither empty, the own package nor
\* runtime, change the default instance exactly as the method would change an
\* instance; package-level Caller() starts its walk one frame nearer than the
\* method, at F itself, and returns F when F is not ignored.
C8_PackageLevelDelegates ==
    /\ []PackageLevelCallerStartsAtCaller
    /\ [][PackageLevelRegistersAsMethod]_vars

\* package-level IgnorePackage, called from F, has put the package of F in the
\* list of the default instance
C8_Witness ==
    /\ last.op = "IgnorePackage" /\ last.inst = "defaultCaller" /\ last.kind = "ok"
    /\ reg["defaultCaller"].ignorePackages = <<PackageName(stack[1])>>
    /\ Outside(stack[1])

---------------------------------------------------------------------------
(* C9 *)

\* C9: Helper called from a named function F whose package is neither the own
\* package nor runtime nor in ignorePackages puts the name of F, and nothing
\* else, in ignoreFunctions of that instance (also through the package-level
\* function); Caller on that instance then ignores the frames of F; the other
\* instances are left as they were.
C9_HelperMarksItsCaller ==
    [][ (/\ last'.op = "Helper"
         /\ stack[1] # <<>> /\ Outside(stack[1])
         /\ PackageName(stack[1]) \notin Range(reg[last'.inst].ignorePackages))
          => LET i == last'.inst
                 old == reg[i].ignoreFunctions
             IN  /\ last'.kind = "ok"
                 /\ reg'[i].ignoreFunctions =
                        IF stack[1] \in Range(old) THEN old ELSE Append(old, stack[1])
                 /\ reg'[i].ignorePackages = reg[i].ignorePackages
                 /\ reg'[i].numFramesToGet = reg[i].numFramesToGet
                 /\ \A j \in Instances \ {i} : reg'[j] = reg[j]
                 /\ skipFrame(reg'[i], [Function |-> stack[1], PC |-> 0]) ]_vars

\* package-level Helper, called from F, has registered F on the default
\* instance, and instance c holds nothing
C9_Witness ==
    /\ last.op = "Helper" /\ last.inst = "defaultCaller" /\ last.kind = "ok"
    /\ reg["defaultCaller"].ignoreFunctions = <<stack[1]>>
    /\ reg["defaultCaller"].ignorePackages = <<>>
    /\ reg["c"] = ACaller

---------------------------------------------------------------------------
(* C10 *)

\* IgnoreFunction(name), called from a function of package P, leaves P.name
\* registered, unless P as a whole is ignored
RegistersQualifiedName ==
    (/\ last.op = "IgnoreFunction" /\ last.kind = "ok"
     /\ stack[1] # <<>> /\ Outside(stack[1]))
        => LET c == reg[last.inst]
               P == PackageName(stack[1])
           IN  \/ Qualified(P, last.name) \in Range(c.ignoreFunctions)
               \/ P \in Range(c.ignorePackages)

\* T calls Info, Info calls log, log calls Caller, with Info and log registered
\* and T not ignored
InfoScenario ==
    /\ last.op = "Caller" /\ last.inst = "c"
    /\ Len(stack) >= 3
    /\ stack[1] = fnLog /\ stack[2] = fnInfo
    /\ {Qualified(PkgLog, nameInfo), Qualified(PkgLog, nameLog)}
           \subseteq Range(reg["c"].ignoreFunctions)
    /\ ~Ignored(reg["c"], stack[3])

\* C10: IgnoreFunction(name) called from package P registers P.name; and with
\* T.I (Info) and T.l (log) registered from the package of the type, Info
\* called from a function T that is not ignored makes Caller return the frame
\* of T, not the frame of Info or log.
C10_IgnoreFunctionEndToEnd ==
    /\ RegistersQualifiedName
    /\ InfoScenario =>
           /\ last.kind = "frame"
           /\ last.frame.Function = stack[3]
           /\ last.frame.PC = 6

\* the scenario has run with the test function as T
C10_Witness ==
    /\ InfoScenario
    /\ stack[3] = fnTest
    /\ last.frame.Function = fnTest

---------------------------------------------------------------------------
(* C11 *)

\* every frame the walk of the Caller call can examine is ignored
AllIgnored ==
    LET c == reg[last.inst]
        pcs == CapturedByCaller
    IN  \A k \in 5..LastReachable(c, pcs) : Ignored(c, pcs[k])

\* C11: when every frame the walk of Caller can examine is ignored, because
\* the stack ends or because the frame depth is reached, Caller does not fail
\* and does not return an empty frame: it returns the last frame of the walk,
\* an ignored one.
C11_FallbackToLastFrame ==
    (last.op = "Caller" /\ AllIgnored) =>
        LET c == reg[last.inst]
            pcs == CapturedByCaller
        IN  /\ last.kind = "frame"
            /\ last.frame # NoFrame
            /\ last.frame.PC = LastReachable(c, pcs)
            /\ last.frame.Function = pcs[LastReachable(c, pcs)]

\* the same, for the calls that leave the walk two frames or more
FallbackWhenTwoFramesRemain ==
    (last.op = "Caller" /\ AllIgnored /\ Len(CapturedByCaller) >= 6) =>
        /\ last.kind = "frame"
        /\ last.frame.PC = LastReachable(reg[last.inst], CapturedByCaller)
        /\ Ignored(reg[last.inst], last.frame.Function)

---------------------------------------------------------------------------
(* C12 *)

\* the int x is the value of the uint size
IsValueOf(x, size) == size.top = 0 /\ x = size.low

\* C12: for every value n of the unsigned size parameter,
\* SetNumberOfFramesToGet(n) with n <= 15 leaves the answer of
\* NumberOfFramesToGet unchanged and with n > 15 makes it n; the answer is 15
\* while nothing was set, and it is never less than 15.
C12_DepthConfiguration ==
    [][ /\ (\A i \in Instances : reg[i].numFramesToGet = 0 => NumberOfFramesToGet(reg[i]) = 15)
        /\ last'.op = "SetNumberOfFramesToGet" =>
               LET i == last'.inst
                   n == last'.n
               IN  /\ ~UintGreater(n, 15) =>
                          NumberOfFramesToGet(reg'[i]) = NumberOfFramesToGet(reg[i])
                   /\ UintGreater(n, 15) => IsValueOf(NumberOfFramesToGet(reg'[i]), n)
                   /\ NumberOfFramesToGet(reg'[i]) >= 15 ]_vars

\* the same, for the sizes that fit a signed integer
DepthConfigurationOfSmallSizes ==
    [][ (last'.op = "SetNumberOfFramesToGet" /\ last'.n.top = 0) =>
            LET i == last'.inst
                n == last'.n
            IN  /\ ~UintGreater(n, 15) =>
                       NumberOfFramesToGet(reg'[i]) = NumberOfFramesToGet(reg[i])
                /\ UintGreater(n, 15) => IsValueOf(NumberOfFramesToGet(reg'[i]), n) ]_vars

---------------------------------------------------------------------------
(* C13 *)

IsPrefix(s, t) == Len(s) <= Len(t) /\ SubSeq(t, 1, Len(s)) = s

\* the functions a frame can have: those of the client and of the library
Reported ==
    Pool \cup {fnCallers, fnGoexit, fnGetFrames, mCaller, pCaller}

\* C13: no operation removes an entry of the registry: every step keeps both
\* lists of every instance as a prefix of the new ones, IgnorePackage leaves
\* ignoreFunctions as it is even when it holds functions of the package being
\* ignored, Helper and IgnoreFunction leave ignorePackages as it is, and a
\* frame that Caller skips before the step is skipped after it.
C13_NothingIsRemoved ==
    [][ /\ \A i \in Instances :
               /\ IsPrefix(reg[i].ignorePackages, reg'[i].ignorePackages)
               /\ IsPrefix(reg[i].ignoreFunctions, reg'[i].ignoreFunctions)
               /\ reg'[i] # reg[i] =>
                      \A fn \in Reported :
                          skipFrame(reg[i], [Function |-> fn, PC |-> 0])
                              => skipFrame(reg'[i], [Function |-> fn, PC |-> 0])
        /\ last'.op = "IgnorePackage" =>
               \A i \in Instances : reg'[i].ignoreFunctions = reg[i].ignoreFunctions
        /\ last'.op \in Registering =>
               \A i \in Instances : reg'[i].ignorePackages = reg[i].ignorePackages ]_vars

\* Helper, then IgnorePackage from the same function: the package is listed and
\* the function entry is still there
C13_Witness ==
    /\ last.op = "IgnorePackage" /\ last.kind = "ok"
    /\ reg[last.inst].ignorePackages = <<PackageName(stack[1])>>
    /\ reg[last.inst].ignoreFunctions = <<stack[1]>>

---------------------------------------------------------------------------
(* C14 *)

Implicit == {PkgRuntime, PkgCaller}

\* C14: after any sequence of Helper, IgnoreFunction(name), for every name,
\* and IgnorePackage calls, ignorePackages holds neither runtime nor the
\* resolver's own package, ignoreFunctions holds no function whose package, as
\* PackageName computes it, is one of the two, and the frames of the two
\* packages are skipped whatever the registry holds.
C14_ImplicitPackagesNotListed ==
    \A i \in Instances :
        /\ \A p \in Range(reg[i].ignorePackages) : p \notin Implicit
        /\ \A fn \in Range(reg[i].ignoreFunctions) : PackageName(fn) \notin Implicit
        /\ \A fn \in {fnCallers, fnGoexit, fnGetFrames, mCaller, pCaller} :
               skipFrame(reg[i], [Function |-> fn, PC |-> 0])

\* the same without the names that carry a path
ImplicitPackagesNotListedByBareNames ==
    \A i \in Instances :
        /\ \A p \in Range(reg[i].ignorePackages) : p \notin Implicit
        /\ \A fn \in Range(reg[i].ignoreFunctions) :
               \/ PackageName(fn) \notin Implicit
               \/ fn = Qualified(PkgTest, nameOwn)
        /\ \A fn \in {fnCallers, fnGoexit, fnGetFrames, mCaller, pCaller} :
               skipFrame(reg[i], [Function |-> fn, PC |-> 0])

---------------------------------------------------------------------------
(* C15 *)

\* the rule of reference: from the last '/', or from the start when there is
\* none, the first '.'; the package is everything before it, and is empty
\* when there is no such '.'
ReferencePackageName(s) ==
    LET slashes == {k \in 1..Len(s) : s[k] = "/"}
        from == IF slashes = {} THEN 1 ELSE CHOOSE k \in slashes : \A j \in slashes : j <= k
        dots == {k \in from..Len(s) : s[k] = "."}
        dot == CHOOSE k \in dots : \A j \in dots : k <= j
    IN  IF dots = {} THEN <<>> ELSE SubSeq(s, 1, dot - 1)

\* C15: PackageName gives what the rule of reference gives for every string;
\* the four examples give group/sub, runtime, the empty string and
\* gdey/caller; and a non-empty result followed by '.' is a prefix of the
\* argument.
C15_PackageNameIsTheRule ==
    last.op = "PackageName" =>
        LET s == stack[1]
            p == last.name
        IN  /\ p = ReferencePackageName(s)
            /\ s = exGroup => p = SubSeq(exGroup, 1, 9)
            /\ s = exRuntime => p = PkgRuntime
            /\ s = exCaller => p = <<>>
            /\ s = exGdey => p = SubSeq(exGdey, 1, 11)
            /\ p # <<>> => IsPrefix(p \o <<".">>, s)

\* PackageName has cut a name with a '.' before its last '/' after the '/'
C15_Witness ==
    /\ last.op = "PackageName"
    /\ stack[1] = <<"a", ".", "/", ".">>
    /\ last.name = <<"a", ".", "/">>

---------------------------------------------------------------------------
(* C16 *)

\* what Caller answers to a goroutine that runs alone
CallerAlone(t) ==
    Caller(reg[threads[t].inst],
           Callers(mCaller, Via(threads[t].inst, pCaller), threads[t].stack))

\* C16: Caller only reads: no step of a Caller call changes ignorePackages,
\* ignoreFunctions or the frame depth of an instance, and when goroutines call
\* Caller on shared instances while no mutating method runs, each gets, in
\* every interleaving, the frame it gets when it runs alone.
C16_CallerIsReadOnly ==
    /\ [][reg' = reg]_vars
    /\ [](\A t \in Threads :
              (threads[t].at = "done" /\ threads[t].op = "Caller") =>
                  /\ threads[t].kind = CallerAlone(t).kind
                  /\ threads[t].frame = CallerAlone(t).frame)

\* one goroutine has its answer, past two ignored frames, while the other is
\* in the middle of its walk on the same instance
C16_Witness ==
    /\ threads["t1"].at = "done" /\ threads["t1"].kind = "frame"
    /\ threads["t1"].frame.Function = fnTest /\ threads["t1"].frame.PC = 6
    /\ threads["t2"].at = "walk" /\ threads["t2"].inst = threads["t1"].inst
    /\ Len(threads["t2"].frames) = 2
    /\ threads["t2"].stack = <<fnLog, fnInfo, fnTest>>

---------------------------------------------------------------------------
(* C17 *)

\* the registry r after the call of goroutine t, made with no other call
\* under way
After(t, r) ==
    LET th == threads[t]
        i == th.inst
        res == CASE th.op = "Helper" ->
                        Helper(r[i], Callers(mHelper, Via(i, pHelper), th.stack))
                 [] th.op = "IgnoreFunction" ->
                        IgnoreFunction(r[i], th.name,
                                       Callers(mIgnoreFunction, Via(i, pIgnoreFunction), th.stack))
                 [] th.op = "IgnorePackage" ->
                        IgnorePackage(r[i], Callers(mIgnorePackage, Via(i, pIgnorePackage),
                                                    th.stack))
    IN  [r EXCEPT ![i] = res.c]

\* the registries the two calls leave when one is made after the other
SequentialOutcomes ==
    LET fresh == [i \in Instances |-> ACaller]
    IN  {After("t2", After("t1", fresh)), After("t1", After("t2", fresh))}

AllDone == \A t \in Threads : threads[t].at = "done"

Overlapped == \E t \in Threads : threads[t].overlapped

\* fewer entries are listed than the goroutines have appended
LostRegistration ==
    \E i \in Instances :
        LET packages == {t \in Threads : /\ threads[t].appended /\ threads[t].inst = i
                                         /\ threads[t].op = "IgnorePackage"}
            functions == {t \in Threads : /\ threads[t].appended /\ threads[t].inst = i
                                          /\ threads[t].op # "IgnorePackage"}
        IN  \/ Len(reg[i].ignorePackages) < Cardinality(packages)
            \/ Len(reg[i].ignoreFunctions) < Cardinality(functions)

TwiceRegistered == \E i \in Instances : ~NoDuplicates(reg[i].ignoreFunctions)

\* C17: the mutating methods search, read and append in steps that nothing
\* orders between goroutines: two calls on a shared instance that overlap can
\* end in a registry that neither order of the two calls produces, with a
\* registration lost or a function name twice in ignoreFunctions; calls that
\* do not overlap end in the registry of one of the two orders.
C17_UnsynchronizedRegistration ==
    AllDone =>
        \/ reg \in SequentialOutcomes
        \/ Overlapped /\ (LostRegistration \/ TwiceRegistered)

\* two Helper calls from the same function have overlapped, and the function
\* is registered twice: no order of the two calls gives that
C17_Witness ==
    /\ AllDone /\ Overlapped
    /\ reg \notin SequentialOutcomes
    /\ threads["t1"].op = "Helper" /\ threads["t2"].op = "Helper"
    /\ reg["c"].ignoreFunctions = <<fnLog, fnLog>>

\* two IgnoreFunction calls have overlapped, and the name of one is lost
RegistrationLostInARace ==
    /\ AllDone /\ Overlapped
    /\ reg \notin SequentialOutcomes
    /\ LostRegistration /\ ~TwiceRegistered
    /\ threads["t1"].op = "IgnoreFunction" /\ threads["t2"].op = "IgnoreFunction"

---------------------------------------------------------------------------
(* C18 *)

\* the stack captured by the Helper or IgnoreFunction call of the step
CapturedByRegistering ==
    IF last'.op = "Helper"
    THEN Callers(mHelper, Via(last'.inst, pHelper), stack)
    ELSE Callers(mIgnoreFunction, Via(last'.inst, pIgnoreFunction), stack)

\* C18: Helper and IgnoreFunction walk at most 5 frames after 3 skipped.
\* Frame capture fails fatally when no address is captured or when
\* skip >= captured - 1; when the frames run out and every frame seen is of
\* the own package or runtime, the call returns silently; when the walk gets
\* to a frame with an empty function name and no frame remains, the call fails
\* fatally.  Both ignore lists are unchanged in each of these outcomes.
C18_WalkOutcomes ==
    [][ (last'.op \in Registering) =>
            LET pcs == CapturedByRegistering
                n == IF Len(pcs) < 8 THEN Len(pcs) ELSE 8
                Named(k) == pcs[k] # <<>>
                Found(k) == Named(k) /\ Outside(pcs[k])
            IN  /\ getFrames(5, 3, <<>>).panic
                /\ 3 >= n - 1 => (last'.kind = "panic" /\ reg' = reg)
                /\ (3 < n - 1 /\ \A k \in 4..n : Named(k) /\ ~Outside(pcs[k]))
                       => (last'.kind = "ok" /\ reg' = reg)
                /\ (3 < n - 1 /\ pcs[n] = <<>> /\ \A k \in 4..(n - 1) : ~Found(k))
                       => (last'.kind = "panic" /\ reg' = reg)
                /\ last'.kind = "panic" => reg' = reg ]_vars

\* package-level Helper, reached through four frames without a name: the walk
\* ended on the last of them, and the call failed
C18_Witness ==
    /\ last.op = "Helper" /\ last.inst = "defaultCaller" /\ last.kind = "panic"
    /\ Len(stack) >= 4
    /\ \A k \in 1..4 : stack[k] = fnNone

\* go caller.Helper(): the frames ran out on runtime.goexit, and the call
\* returned without registering
SilentReturnReached ==
    /\ last.op = "Helper" /\ last.inst = "defaultCaller" /\ last.kind = "ok"
    /\ stack = <<>>
    /\ reg = [i \in Instances |-> ACaller]

\* go c.Helper(): one frame is left after the 3 skipped, and capture failed
CaptureFailureReached ==
    /\ last.op = "Helper" /\ last.inst = "c" /\ last.kind = "panic"
    /\ stack = <<>>

====
